---- MODULE Spec2Model ----
(***************************************************************************)
(* A model of splunknova/client.py: the top-level Client with its lazily   *)
(* built sub-clients, the EventsClient (ingest, search), the EventSearch   *)
(* query builder (eval, _search, events, iter_events, stats, timechart)    *)
(* and the MetricsClient (ingest_custom, describe, describe_metric).       *)
(*                                                                         *)
(* Python strings are TLA+ strings.  A URL is a record [root, path]: path  *)
(* is the sequence of segments after the host, a last segment "" standing  *)
(* for a trailing slash.  A request is recorded with the mapping handed to *)
(* urlencode (the query a server decodes), not its percent-encoded text.   *)
(* The HTTP library and the server are the environment: every request is   *)
(* answered by a response drawn from a small set.                          *)
(***************************************************************************)
EXTENDS Integers, Sequences, FiniteSets, TLC

VARIABLES
    clients,         \* the Client objects built so far, in construction order
    eventsClients,   \* the heap of EventsClient objects
    metricsClients,  \* the heap of MetricsClient objects
    searches,        \* the heap of EventSearch objects
    transforms,      \* EventSearch.transforms, the class attribute (line 110)
    evalLog,         \* history: per EventSearch, the eval() calls made on it
    accessed,        \* history: per Client, the values its accessors returned
    server,          \* the pages the server still answers search requests with
    gen,             \* the generator returned by the latest iter_events() call
    last             \* the latest call: its requests, responses and outcome

vars == <<clients, eventsClients, metricsClients, searches, transforms,
          evalLog, accessed, server, gen, last>>

---------------------------------------------------------------------------
(* Bounds of the model *)

MaxClients == 2
MaxSearches == 2
MaxEvals == 2
MaxPages == 3

(* Inputs the callers and the server are drawn from *)

Credentials == {<<"id1", "secret1">>, <<"id2", "secret2">>}
Versions == {"1", "2"}
EventBatches == {<<"ev1">>, <<"ev1", "ev2">>}
Terms == {"x"}
NoneVal == "<None>"
Timespecs == {<<NoneVal, NoneVal>>, <<"-7d", NoneVal>>, <<"-7d", "-1h">>}
EvalPairs == {<<"a", "b/2">>, <<"c", "d+e">>}
StatsStrings == {"count by host"}
TimechartStrings == {"count"}
MetricNames == {"cpu"}
PageLens == {0, 1, 3, 10}

---------------------------------------------------------------------------
(* Values *)

None == [cls |-> "NoneType", id |-> 0]
EmptyStr == [cls |-> "str", id |-> 0]
Ref(cls, id) == [cls |-> cls, id |-> id]

Return(v) == [kind |-> "return", value |-> v]
Raise(cls, msg) == [kind |-> "raise", value |-> [cls |-> cls, msg |-> msg]]

Call(op, self, args, reqs, resps, outcome) ==
    [op |-> op, self |-> self, args |-> args, requests |-> reqs,
     responses |-> resps, outcome |-> outcome]

NoCall == Call("none", 0, <<>>, <<>>, <<>>, Return(None))

NoQuery == [k \in {} |-> ""]

Request(method, url, query, json, auth) ==
    [method |-> method, url |-> url, query |-> query, json |-> json, auth |-> auth]

NoAuth == <<>>
NoJson == <<>>

---------------------------------------------------------------------------
(* URLs *)

NOVA_BASE_URL == [root |-> "https://api.splunknova.com", path |-> <<"">>]

\* urljoin(base, rel) for a relative path rel: the last segment of base's
\* path is dropped and rel takes its place (RFC 3986, 5.2.3).
urljoin(base, rel) ==
    [root |-> base.root,
     path |-> (IF Len(base.path) = 0 THEN <<>>
               ELSE SubSeq(base.path, 1, Len(base.path) - 1)) \o rel]

---------------------------------------------------------------------------
(* The HTTP environment *)

Response(status, reason, text, json) ==
    [status_code |-> status, reason |-> reason, text |-> text, json |-> json]

FailedResponses ==
    { Response(404, "Not Found", "nf", NoJson),
      Response(499, "Client Closed", "cc", NoJson),
      Response(500, "Server Error", "se", NoJson),
      Response(503, "Unavailable", "su", NoJson) }

\* requests.Response.raise_for_status raises HTTPError for 4xx and 5xx
RaisesForStatus(r) == r.status_code >= 400 /\ r.status_code < 600

ErrorText(r) ==
    ToString(r.status_code) \o " " \o r.reason \o " - " \o r.text

HandleHttpErrorLe(r) ==
    IF r.status_code <= 500 THEN Raise("ValueError", ErrorText(r))
    ELSE Raise("RuntimeError", ErrorText(r))

handle_http_error(r) ==
    IF r.status_code < 500 THEN Raise("ValueError", ErrorText(r))
    ELSE Raise("RuntimeError", ErrorText(r))

---------------------------------------------------------------------------
(* Client *)

ClientObj(client_id, client_secret, version) ==
    [client_id |-> client_id, client_secret |-> client_secret,
     version |-> version, _events_client |-> None, _metrics_client |-> None]

_base_url(c) == urljoin(NOVA_BASE_URL, <<"v" \o c.version, "">>)

EventsClientObj(client_id, client_secret, base_url) ==
    [client_id |-> client_id, client_secret |-> client_secret,
     base_url |-> base_url]

NeverAccessed == [events |-> {}, metrics |-> {}]

ClientInit(client_id, client_secret, version) ==
    /\ Len(clients) < MaxClients
    /\ clients' = Append(clients, ClientObj(client_id, client_secret, version))
    /\ accessed' = Append(accessed, NeverAccessed)
    /\ last' = Call("Client", Len(clients) + 1,
                    <<client_id, client_secret, version>>, <<>>, <<>>,
                    Return(None))
    /\ UNCHANGED <<eventsClients, metricsClients, searches, transforms,
                   evalLog, server, gen>>

\* The events property: builds the EventsClient when the cache holds None.
ClientEvents(c) ==
    LET self == clients[c]
        miss == self._events_client = None
        obj == IF miss THEN Ref("EventsClient", Len(eventsClients) + 1)
               ELSE self._events_client
    IN  /\ eventsClients' =
              IF miss
              THEN Append(eventsClients,
                          EventsClientObj(self.client_id, self.client_secret,
                                          _base_url(self)))
              ELSE eventsClients
        /\ clients' = [clients EXCEPT ![c]._events_client = obj]
        /\ accessed' = [accessed EXCEPT ![c].events = @ \cup {obj}]
        /\ last' = Call("Client.events", c, <<>>, <<>>, <<>>, Return(obj))
        /\ UNCHANGED <<metricsClients, searches, transforms, evalLog, server, gen>>

\* The metrics property: stores '' when the cache holds None.
ClientMetrics(c) ==
    LET self == clients[c]
        obj == IF self._metrics_client = None THEN EmptyStr
               ELSE self._metrics_client
    IN  /\ clients' = [clients EXCEPT ![c]._metrics_client = obj]
        /\ accessed' = [accessed EXCEPT ![c].metrics = @ \cup {obj}]
        /\ last' = Call("Client.metrics", c, <<>>, <<>>, <<>>, Return(obj))
        /\ UNCHANGED <<eventsClients, metricsClients, searches, transforms,
                       evalLog, server, gen>>

---------------------------------------------------------------------------
(* EventsClient *)

Events_ingest_url(self) == urljoin(self.base_url, <<"events">>)

IngestResponses ==
    FailedResponses \cup
    { Response(200, "OK", "", [code |-> 200]) }

IngestRequestNoAuth(self, events) ==
    Request("POST", Events_ingest_url(self), NoQuery, events, NoAuth)

\* requests.post(self._ingest_url, json=events, auth=(client_id, client_secret))
IngestRequest(self, events) ==
    Request("POST", Events_ingest_url(self), NoQuery, events,
            <<self.client_id, self.client_secret>>)

\* raise_for_status, then r.json(); an HTTPError goes to handle_http_error
JsonOrError(r) ==
    IF RaisesForStatus(r) THEN handle_http_error(r) ELSE Return(r.json)

Ingest(e, events, r) ==
    /\ last' = Call("ingest", e, <<events>>,
                    <<IngestRequest(eventsClients[e], events)>>, <<r>>,
                    JsonOrError(r))
    /\ UNCHANGED <<clients, eventsClients, metricsClients, searches, transforms,
                   evalLog, accessed, server, gen>>

\* search(): a new EventSearch on the search URL, with the client's credentials
Events_search_url(self) == urljoin(self.base_url, <<"events">>)

EventSearchObj(base_url, search, client_id, client_secret, earliest, latest) ==
    [base_url |-> base_url, search |-> search, earliest |-> earliest,
     latest |-> latest, client_id |-> client_id, client_secret |-> client_secret]

Search(e, terms, earliest, latest) ==
    LET self == eventsClients[e]
    IN  /\ Len(searches) < MaxSearches
        /\ searches' = Append(searches,
                              EventSearchObj(Events_search_url(self), terms,
                                             self.client_id, self.client_secret,
                                             earliest, latest))
        /\ evalLog' = Append(evalLog, <<>>)
        /\ last' = Call("search", e, <<terms, earliest, latest>>, <<>>, <<>>,
                        Return(Ref("EventSearch", Len(searches) + 1)))
        /\ UNCHANGED <<clients, eventsClients, metricsClients, transforms,
                       accessed, server, gen>>

---------------------------------------------------------------------------
(* EventSearch *)

\* '{}={}'.format(field, transform)
FormatTransform(field, transform) == field \o "=" \o transform

\* eval(): self.transforms is the class attribute, no instance ever rebinds it
Eval(s, field, transform) ==
    /\ Len(transforms) < MaxEvals
    /\ transforms' = Append(transforms, FormatTransform(field, transform))
    /\ evalLog' = [evalLog EXCEPT ![s] = Append(@, <<field, transform>>)]
    /\ last' = Call("eval", s, <<field, transform>>, <<>>, <<>>,
                    Return(Ref("EventSearch", s)))
    /\ UNCHANGED <<clients, eventsClients, metricsClients, searches, accessed,
                   server, gen>>

RECURSIVE Join(_, _)
\* sep.join(strs)
Join(sep, strs) ==
    IF Len(strs) = 0 THEN ""
    ELSE IF Len(strs) = 1 THEN strs[1]
    ELSE strs[1] \o sep \o Join(sep, Tail(strs))

_encode_transforms == Join(" ", <<"eval">> \o transforms)

TimeString(self) ==
    (IF self.earliest # NoneVal
     THEN "earliest_time=" \o self.earliest \o " " ELSE "")
    \o (IF self.latest # NoneVal
        THEN "latest_time=" \o self.latest \o " " ELSE "")

ReportSwapped(stats_string, timechart_string) ==
    IF timechart_string # NoneVal THEN "report" :> ("stats " \o timechart_string)
    ELSE IF stats_string # NoneVal
    THEN "report" :> ("timechart " \o stats_string)
    ELSE NoQuery

\* the report key of _search: stats first, else timechart, else no key
Report(stats_string, timechart_string) ==
    IF stats_string # NoneVal THEN "report" :> ("stats " \o stats_string)
    ELSE IF timechart_string # NoneVal
    THEN "report" :> ("timechart " \o timechart_string)
    ELSE NoQuery

\* the mapping _search hands to urlencode, which writes every value with str()
SearchParams(self, index, count, stats_string, timechart_string) ==
    Report(stats_string, timechart_string)
    @@ (IF Len(transforms) > 0 THEN "transform" :> _encode_transforms
        ELSE NoQuery)
    @@ [k \in {"keywords", "index", "count"} |->
          CASE k = "keywords" -> TimeString(self) \o self.search
            [] k = "index" -> ToString(index)
            [] k = "count" -> ToString(count)]

\* requests.get('{}?{}'.format(base_url, query), auth=(client_id, client_secret))
SearchRequest(self, index, count, stats_string, timechart_string) ==
    Request("GET", self.base_url,
            SearchParams(self, index, count, stats_string, timechart_string),
            NoJson, <<self.client_id, self.client_secret>>)

\* outcome[key] on the outcome of a call: a raise propagates, a missing key
\* raises KeyError
Subscript(outcome, key) ==
    IF outcome.kind = "raise" THEN outcome
    ELSE IF key \in DOMAIN outcome.value THEN Return(outcome.value[key])
    ELSE Raise("KeyError", key)

\* what the server answers a search for events with: the next page of its
\* script (an empty page once the script is over), a body without 'events',
\* or a failure
NextPage == IF Len(server) = 0 THEN <<>> ELSE Head(server)

HasPage(r) == (~RaisesForStatus(r)) /\ "events" \in DOMAIN r.json

EventsResponses ==
    FailedResponses \cup
    { Response(200, "OK", "", [events |-> NextPage]),
      Response(200, "OK", "", [error |-> "bad"]) }

Served(r) == IF HasPage(r) /\ Len(server) > 0 THEN Tail(server) ELSE server

ReportResponses ==
    FailedResponses \cup
    { Response(200, "OK", "", [events |-> <<>>]),
      Response(200, "OK", "", [events |-> <<"row">>]) }

IndexCount == {<<0, 10>>, <<10, 5>>}

\* events(index, count): _search(index=index, count=count)['events']
Events(s, index, count, r) ==
    /\ last' = Call("events", s, <<index, count>>,
                    <<SearchRequest(searches[s], index, count, NoneVal, NoneVal)>>,
                    <<r>>, Subscript(JsonOrError(r), "events"))
    /\ server' = Served(r)
    /\ UNCHANGED <<clients, eventsClients, metricsClients, searches, transforms,
                   evalLog, accessed, gen>>

\* stats(stats_string): _search(stats_string=stats_string)['events']
Stats(s, stats_string, r) ==
    /\ last' = Call("stats", s, <<stats_string>>,
                    <<SearchRequest(searches[s], 0, 10, stats_string, NoneVal)>>,
                    <<r>>, Subscript(JsonOrError(r), "events"))
    /\ UNCHANGED <<clients, eventsClients, metricsClients, searches, transforms,
                   evalLog, accessed, server, gen>>

\* timechart(timechart_string): _search(timechart_string=...)['events']
Timechart(s, timechart_string, r) ==
    /\ last' = Call("timechart", s, <<timechart_string>>,
                    <<SearchRequest(searches[s], 0, 10, NoneVal, timechart_string)>>,
                    <<r>>, Subscript(JsonOrError(r), "events"))
    /\ UNCHANGED <<clients, eventsClients, metricsClients, searches, transforms,
                   evalLog, accessed, server, gen>>

---------------------------------------------------------------------------
(* iter_events: a generator.  Its body runs only inside next() calls. *)

IterPageSize == 10

NoGen ==
    [pc |-> "none", search |-> 0, i |-> 0, events |-> <<>>, pos |-> 0,
     reqs |-> <<>>, pages |-> <<>>, out |-> <<>>]

\* calling a generator function runs none of its body
NewGen(s) == [NoGen EXCEPT !.pc = "created", !.search = s]

IterContinueFullPage(events) == Len(events) >= IterPageSize

\* while len(events) > 0
IterContinue(events) == Len(events) > 0

\* events = self.events(index=index, count=10), then the while test and, on a
\* non-empty page, the first yield.  reqs, pages and out are history.
GenFetch(g, index, r) ==
    LET s == g.search
        req == SearchRequest(searches[s], index, IterPageSize, NoneVal, NoneVal)
        outcome == Subscript(JsonOrError(r), "events")
        g1 == [g EXCEPT !.i = index, !.reqs = Append(@, <<index, IterPageSize>>)]
    IN  /\ server' = Served(r)
        /\ IF outcome.kind = "raise"
           THEN /\ gen' = [g1 EXCEPT !.pc = "failed"]
                /\ last' = Call("next", s, <<>>, <<req>>, <<r>>, outcome)
           ELSE IF IterContinue(outcome.value)
           THEN /\ gen' = [g1 EXCEPT !.pc = "suspended",
                                     !.events = outcome.value, !.pos = 1,
                                     !.pages = Append(@, outcome.value),
                                     !.out = Append(@, outcome.value[1])]
                /\ last' = Call("next", s, <<>>, <<req>>, <<r>>,
                                Return(outcome.value[1]))
           ELSE /\ gen' = [g1 EXCEPT !.pc = "exhausted",
                                     !.events = outcome.value, !.pos = 0,
                                     !.pages = Append(@, outcome.value)]
                /\ last' = Call("next", s, <<>>, <<req>>, <<r>>,
                                Raise("StopIteration", ""))

IterEventsEager(s) ==
    /\ \E r \in EventsResponses :
          LET req == SearchRequest(searches[s], 0, IterPageSize, NoneVal, NoneVal)
              outcome == Subscript(JsonOrError(r), "events")
              g1 == [NewGen(s) EXCEPT !.reqs = <<<<0, IterPageSize>>>>]
          IN  /\ server' = Served(r)
              /\ gen' = IF outcome.kind = "raise" THEN [g1 EXCEPT !.pc = "failed"]
                        ELSE [g1 EXCEPT !.pc = IF Len(outcome.value) > 0
                                               THEN "suspended" ELSE "exhausted",
                                        !.events = outcome.value,
                                        !.pages = <<outcome.value>>]
              /\ last' = Call("iter_events", s, <<>>, <<req>>, <<r>>,
                              Return(Ref("generator", 0)))
    /\ UNCHANGED <<clients, eventsClients, metricsClients, searches, transforms,
                   evalLog, accessed>>

\* iter_events(): returns a fresh generator
IterEvents(s) ==
    /\ gen' = NewGen(s)
    /\ last' = Call("iter_events", s, <<>>, <<>>, <<>>, Return(Ref("generator", 0)))
    /\ UNCHANGED <<clients, eventsClients, metricsClients, searches, transforms,
                   evalLog, accessed, server>>

\* next(generator): runs the body up to its next yield, its end or a raise
GenNext ==
    /\ \/ /\ gen.pc = "created"
          /\ \E r \in EventsResponses : GenFetch(gen, 0, r)
       \/ /\ gen.pc = "suspended"
          /\ gen.pos < Len(gen.events)
          /\ gen' = [gen EXCEPT !.pos = @ + 1,
                                !.out = Append(@, gen.events[gen.pos + 1])]
          /\ last' = Call("next", gen.search, <<>>, <<>>, <<>>,
                          Return(gen.events[gen.pos + 1]))
          /\ UNCHANGED server
       \/ /\ gen.pc = "suspended"
          /\ gen.pos >= Len(gen.events)
          /\ \E r \in EventsResponses : GenFetch(gen, gen.i + IterPageSize, r)
       \/ /\ gen.pc \in {"exhausted", "failed"}
          /\ last' = Call("next", gen.search, <<>>, <<>>, <<>>,
                          Raise("StopIteration", ""))
          /\ UNCHANGED <<gen, server>>
    /\ UNCHANGED <<clients, eventsClients, metricsClients, searches, transforms,
                   evalLog, accessed>>

---------------------------------------------------------------------------
(* MetricsClient *)

MetricsClientObj(client_id, client_secret, base_url) ==
    [client_id |-> client_id, client_secret |-> client_secret,
     base_url |-> base_url]

Metrics_ingest_url(self) == urljoin(self.base_url, <<"metrics">>)

\* _ingest: requests.post('{}?type={}'.format(url, schema), json=metrics, auth=...)
MetricsIngestRequest(self, metrics, schema) ==
    Request("POST", Metrics_ingest_url(self), "type" :> schema, metrics,
            <<self.client_id, self.client_secret>>)

MetricBatches == {<<"m1">>}

\* ingest_custom(metrics): _ingest(metrics, schema='custom')
IngestCustom(m, metrics, r) ==
    /\ last' = Call("ingest_custom", m, <<metrics>>,
                    <<MetricsIngestRequest(metricsClients[m], metrics, "custom")>>,
                    <<r>>, JsonOrError(r))
    /\ UNCHANGED <<clients, eventsClients, metricsClients, searches, transforms,
                   evalLog, accessed, server, gen>>

Metrics_describe_url(self) == urljoin(self.base_url, <<"metrics">>)

Metrics_describe_metric_url(self) == urljoin(self.base_url, <<"metrics", "">>)

InvalidResponseMsg == "Splunk Nova returned an invalid response."

DescribeResponses ==
    FailedResponses \cup
    { Response(200, "OK", "", [metrics |-> <<"cpu">>]),
      Response(200, "OK", "", [error |-> "bad"]) }

DescribeMetricResponses ==
    FailedResponses \cup
    { Response(200, "OK", "", [aggregations |-> <<"avg">>, dimensions |-> <<"host">>]),
      Response(200, "OK", "", [aggregations |-> <<"avg">>]),
      Response(200, "OK", "", [dimensions |-> <<"host">>]),
      Response(200, "OK", "", [error |-> "bad"]) }

DescribeOutcomeNoCatch(r) ==
    Subscript(JsonOrError(r), "metrics")

\* describe: r.json()['metrics']; except HTTPError, except KeyError
DescribeOutcome(r) ==
    IF RaisesForStatus(r) THEN handle_http_error(r)
    ELSE IF "metrics" \in DOMAIN r.json THEN Return(r.json["metrics"])
    ELSE Raise("RuntimeError", InvalidResponseMsg)

Describe(m, r) ==
    /\ last' = Call("describe", m, <<>>,
                    <<Request("GET", Metrics_describe_url(metricsClients[m]),
                              NoQuery, NoJson, NoAuth)>>,
                    <<r>>, DescribeOutcome(r))
    /\ UNCHANGED <<clients, eventsClients, metricsClients, searches, transforms,
                   evalLog, accessed, server, gen>>

\* describe_metric: (r_json['aggregations'], r_json['dimensions'])
DescribeMetricOutcome(r) ==
    IF RaisesForStatus(r) THEN handle_http_error(r)
    ELSE IF "aggregations" \notin DOMAIN r.json
    THEN Raise("RuntimeError", InvalidResponseMsg)
    ELSE IF "dimensions" \notin DOMAIN r.json
    THEN Raise("RuntimeError", InvalidResponseMsg)
    ELSE Return(<<r.json["aggregations"], r.json["dimensions"]>>)

DescribeMetric(m, name, r) ==
    /\ last' = Call("describe_metric", m, <<name>>,
                    <<Request("GET",
                              urljoin(Metrics_describe_metric_url(metricsClients[m]),
                                      <<name>>),
                              NoQuery, NoJson, NoAuth)>>,
                    <<r>>, DescribeMetricOutcome(r))
    /\ UNCHANGED <<clients, eventsClients, metricsClients, searches, transforms,
                   evalLog, accessed, server, gen>>

---------------------------------------------------------------------------
(* Specifications *)

\* The library with nothing built yet: clients, their accessors and ingest.
Init ==
    /\ clients = <<>>
    /\ eventsClients = <<>>
    /\ metricsClients = <<>>
    /\ searches = <<>>
    /\ transforms = <<>>
    /\ evalLog = <<>>
    /\ accessed = <<>>
    /\ server = <<>>
    /\ gen = NoGen
    /\ last = NoCall

Next ==
    \/ \E cred \in Credentials, v \in Versions : ClientInit(cred[1], cred[2], v)
    \/ \E c \in 1..Len(clients) : ClientEvents(c)
    \/ \E c \in 1..Len(clients) : ClientMetrics(c)
    \/ \E e \in 1..Len(eventsClients), events \in EventBatches,
          r \in IngestResponses : Ingest(e, events, r)

Spec == Init /\ [][Next]_vars

\* The server's script: page p of a script holds lens[p] events, each its own
ScriptOf(lens) ==
    [p \in 1..Len(lens) |-> [k \in 1..lens[p] |-> 100 * p + k]]

\* One Client whose events accessor was read once: Client(...).events
InitBuilt(cred, v) ==
    LET c == ClientObj(cred[1], cred[2], v)
    IN  /\ clients = <<[c EXCEPT !._events_client = Ref("EventsClient", 1)]>>
        /\ eventsClients = <<EventsClientObj(c.client_id, c.client_secret,
                                             _base_url(c))>>
        /\ accessed = <<[events |-> {Ref("EventsClient", 1)}, metrics |-> {}]>>
        /\ gen = NoGen
        /\ last = NoCall

\* Searches built, transformed and run on one events client.
InitSearch ==
    /\ \E cred \in Credentials : InitBuilt(cred, "1")
    /\ metricsClients = <<>>
    /\ searches = <<>>
    /\ transforms = <<>>
    /\ evalLog = <<>>
    /\ server = ScriptOf(<<1>>)

NextSearch ==
    \/ \E e \in 1..Len(eventsClients), terms \in Terms, ts \in Timespecs :
          Search(e, terms, ts[1], ts[2])
    \/ \E s \in 1..Len(searches), p \in EvalPairs : Eval(s, p[1], p[2])
    \/ \E s \in 1..Len(searches), ic \in IndexCount, r \in EventsResponses :
          Events(s, ic[1], ic[2], r)
    \/ \E s \in 1..Len(searches), x \in StatsStrings, r \in ReportResponses :
          Stats(s, x, r)
    \/ \E s \in 1..Len(searches), x \in TimechartStrings, r \in ReportResponses :
          Timechart(s, x, r)

SpecSearch == InitSearch /\ [][NextSearch]_vars

\* One search iterated against every script of at most MaxPages pages.
InitIter ==
    /\ \E cred \in Credentials : InitBuilt(cred, "1")
    /\ metricsClients = <<>>
    /\ \E ts \in Timespecs :
          searches = <<EventSearchObj(Events_search_url(eventsClients[1]), "x",
                                      eventsClients[1].client_id,
                                      eventsClients[1].client_secret,
                                      ts[1], ts[2])>>
    /\ transforms = <<>>
    /\ evalLog = <<<<>>>>
    /\ \E n \in 0..MaxPages : \E lens \in [1..n -> PageLens] :
          server = ScriptOf(lens)

NextIter ==
    \/ \E s \in 1..Len(searches) : IterEvents(s)
    \/ GenNext

SpecIter == InitIter /\ [][NextIter]_vars

\* One search run every way it can be: events, stats, timechart, iteration.
InitReport ==
    /\ \E cred \in Credentials : InitBuilt(cred, "1")
    /\ metricsClients = <<>>
    /\ \E ts \in Timespecs :
          searches = <<EventSearchObj(Events_search_url(eventsClients[1]), "x",
                                      eventsClients[1].client_id,
                                      eventsClients[1].client_secret,
                                      ts[1], ts[2])>>
    /\ \E evals \in {<<>>, <<<<"a", "b/2">>>>} :
          /\ transforms = [n \in 1..Len(evals) |->
                              FormatTransform(evals[n][1], evals[n][2])]
          /\ evalLog = <<evals>>
    /\ server = ScriptOf(<<3>>)

NextReport ==
    \/ \E s \in 1..Len(searches), ic \in IndexCount, r \in EventsResponses :
          Events(s, ic[1], ic[2], r)
    \/ \E s \in 1..Len(searches), x \in StatsStrings, r \in ReportResponses :
          Stats(s, x, r)
    \/ \E s \in 1..Len(searches), x \in TimechartStrings, r \in ReportResponses :
          Timechart(s, x, r)
    \/ \E s \in 1..Len(searches) : IterEvents(s)
    \/ GenNext

SpecReport == InitReport /\ [][NextReport]_vars

MetricsBases ==
    { urljoin(NOVA_BASE_URL, <<"v1", "">>),
      [root |-> "https://api.splunknova.com", path |-> <<"v1">>] }

\* Every network operation, on objects already built.
InitNet ==
    /\ \E cred \in Credentials, v \in Versions : InitBuilt(cred, v)
    /\ \E cred \in Credentials, b \in MetricsBases :
          metricsClients = <<MetricsClientObj(cred[1], cred[2], b)>>
    /\ \E ts \in Timespecs :
          searches = <<EventSearchObj(Events_search_url(eventsClients[1]), "x",
                                      eventsClients[1].client_id,
                                      eventsClients[1].client_secret,
                                      ts[1], ts[2])>>
    /\ \E evals \in {<<>>, <<<<"a", "b/2">>>>} :
          /\ transforms = [n \in 1..Len(evals) |->
                              FormatTransform(evals[n][1], evals[n][2])]
          /\ evalLog = <<evals>>
    /\ server \in {ScriptOf(<<>>), ScriptOf(<<3>>)}

NextNet ==
    \/ \E e \in 1..Len(eventsClients), events \in EventBatches,
          r \in IngestResponses : Ingest(e, events, r)
    \/ \E s \in 1..Len(searches), ic \in IndexCount, r \in EventsResponses :
          Events(s, ic[1], ic[2], r)
    \/ \E s \in 1..Len(searches), x \in StatsStrings, r \in ReportResponses :
          Stats(s, x, r)
    \/ \E s \in 1..Len(searches), x \in TimechartStrings, r \in ReportResponses :
          Timechart(s, x, r)
    \/ \E m \in 1..Len(metricsClients), x \in MetricBatches,
          r \in IngestResponses : IngestCustom(m, x, r)
    \/ \E m \in 1..Len(metricsClients), r \in DescribeResponses : Describe(m, r)
    \/ \E m \in 1..Len(metricsClients), n \in MetricNames,
          r \in DescribeMetricResponses : DescribeMetric(m, n, r)

SpecNet == InitNet /\ [][NextNet]_vars

---------------------------------------------------------------------------
(* Properties *)

RECURSIVE Flatten(_)
Flatten(pages) ==
    IF Len(pages) = 0 THEN <<>> ELSE Head(pages) \o Flatten(Tail(pages))

RECURSIVE EvalDirective(_)
\* "eval f1=e1 f2=e2 ... fn=en" for the pairs <<f1, e1>>, ..., <<fn, en>>
EvalDirective(pairs) ==
    IF Len(pairs) = 0 THEN "eval"
    ELSE EvalDirective(SubSeq(pairs, 1, Len(pairs) - 1))
         \o " " \o pairs[Len(pairs)][1] \o "=" \o pairs[Len(pairs)][2]

SearchOps == {"events", "stats", "timechart", "next"}

NetworkOps ==
    {"ingest", "events", "stats", "timechart", "ingest_custom", "describe",
     "describe_metric"}

\* C1: an iteration that ran to its end saw n >= 0 non-empty pages and then
\* an empty one, delivered exactly the events of the n pages, in page order
\* and within-page order, and issued n+1 requests, at offsets 0, 10, ...,
\* 10*n, each with count 10.
C1_IterEventsYieldsAllPages ==
    gen.pc = "exhausted" =>
        LET n == Len(gen.pages) - 1
        IN  /\ n >= 0
            /\ \A p \in 1..n : Len(gen.pages[p]) > 0
            /\ gen.pages[n + 1] = <<>>
            /\ gen.out = Flatten(SubSeq(gen.pages, 1, n))
            /\ gen.reqs = [k \in 1..(n + 1) |-> <<10 * (k - 1), 10>>]

\* pages of 10, 10, 3 and 0 events: 23 events delivered, 4 requests
C1_Witness ==
    /\ gen.pc = "exhausted"
    /\ Len(gen.pages) = 4
    /\ Len(gen.pages[1]) = 10 /\ Len(gen.pages[2]) = 10 /\ Len(gen.pages[3]) = 3
    /\ Len(gen.out) = 23
    /\ gen.reqs = <<<<0, 10>>, <<10, 10>>, <<20, 10>>, <<30, 10>>>>

\* C2: every request of a builder on which eval(f1,e1), ..., eval(fn,en)
\* (n >= 1) were called carries the transform "eval f1=e1 ... fn=en".
C2_TransformInCallOrder ==
    (last.op \in SearchOps /\ Len(evalLog[last.self]) > 0) =>
        \A i \in 1..Len(last.requests) :
            /\ "transform" \in DOMAIN last.requests[i].query
            /\ last.requests[i].query["transform"]
                  = EvalDirective(evalLog[last.self])

\* C3: the transforms are scoped to the builder: a step that calls no eval
\* on builder b leaves the query b sends unchanged, and a builder on which
\* eval was never called sends no transform key.
C3_TransformsScopedPerBuilder ==
    [][ /\ \A b \in 1..Len(searches) :
              evalLog'[b] = evalLog[b] =>
                  SearchParams(searches[b], 0, 10, NoneVal, NoneVal)'
                      = SearchParams(searches[b], 0, 10, NoneVal, NoneVal)
        /\ (last'.op \in SearchOps /\ Len(evalLog'[last'.self]) = 0) =>
              \A i \in 1..Len(last'.requests) :
                  "transform" \notin DOMAIN last'.requests[i].query
      ]_vars

\* C4: a network operation issues one request, and on a failed response it
\* raises ValueError below status 500 and RuntimeError from 500 on, with
\* the status code, the reason and the body in its message.
C4_FailedResponseRaises ==
    last.op \in NetworkOps =>
        /\ Len(last.requests) = 1
        /\ Len(last.responses) = 1
        /\ LET r == last.responses[1]
           IN  RaisesForStatus(r) =>
                 /\ last.outcome.kind = "raise"
                 /\ last.outcome.value.cls =
                       (IF r.status_code < 500 THEN "ValueError"
                        ELSE "RuntimeError")
                 /\ last.outcome.value.msg =
                       ToString(r.status_code) \o " " \o r.reason \o " - " \o r.text

\* describe_metric answered with status 500
C4_Witness ==
    /\ last.op = "describe_metric"
    /\ last.responses[1].status_code = 500
    /\ last.outcome.kind = "raise"

\* C5: each accessor of a client returns one and the same object on every
\* access, one events sub-client is built per client that was asked for it,
\* and no two clients get the same object from an accessor.
C5_LazySingletons ==
    /\ \A c \in 1..Len(clients) :
          /\ Cardinality(accessed[c].events) <= 1
          /\ Cardinality(accessed[c].metrics) <= 1
    /\ Len(eventsClients)
          = Cardinality({c \in 1..Len(clients) : accessed[c].events # {}})
    /\ \A c, d \in 1..Len(clients) :
          c # d => /\ accessed[c].events \cap accessed[d].events = {}
                   /\ accessed[c].metrics \cap accessed[d].metrics = {}

\* C6: what the metrics accessor returns is a MetricsClient bound to the
\* client's versioned base URL and its client id and secret.
C6_MetricsAccessorBuildsClient ==
    \A c \in 1..Len(clients) : \A v \in accessed[c].metrics :
        /\ v.cls = "MetricsClient"
        /\ v.id \in 1..Len(metricsClients)
        /\ metricsClients[v.id]
              = MetricsClientObj(clients[c].client_id, clients[c].client_secret,
                                 _base_url(clients[c]))

\* C7: stats(x) sends report "stats x", timechart(x) sends report
\* "timechart x", events() and the page requests of iter_events send no
\* report key.
C7_OneAggregationDirective ==
    \A i \in 1..Len(last.requests) :
        LET q == last.requests[i].query
        IN  CASE last.op = "stats" ->
                    /\ "report" \in DOMAIN q
                    /\ q["report"] = "stats " \o last.args[1]
              [] last.op = "timechart" ->
                    /\ "report" \in DOMAIN q
                    /\ q["report"] = "timechart " \o last.args[1]
              [] last.op \in {"events", "next", "iter_events"} ->
                    "report" \notin DOMAIN q
              [] OTHER -> TRUE

\* timechart('count') after the iteration fetched a page
C7_Witness ==
    /\ last.op = "timechart"
    /\ Len(last.requests) = 1
    /\ last.requests[1].query["report"] = "timechart count"
    /\ Len(gen.reqs) > 0

\* C8: ingest(events) issues one POST to {base}/events with the events as
\* its JSON body and the client's id and secret as basic auth, and returns
\* the parsed response on success.
C8_IngestOnePost ==
    last.op = "ingest" =>
        /\ Len(last.requests) = 1
        /\ \A c \in 1..Len(clients) :
              clients[c]._events_client = Ref("EventsClient", last.self) =>
                  last.requests[1] =
                      Request("POST",
                              [root |-> "https://api.splunknova.com",
                               path |-> <<"v" \o clients[c].version, "events">>],
                              NoQuery, last.args[1],
                              <<clients[c].client_id, clients[c].client_secret>>)
        /\ (~RaisesForStatus(last.responses[1])) =>
              /\ last.outcome.kind = "return"
              /\ last.outcome.value = last.responses[1].json

\* the second of two clients ingests two events and the server accepts them
C8_Witness ==
    /\ last.op = "ingest"
    /\ Len(clients) = 2
    /\ clients[2]._events_client = Ref("EventsClient", last.self)
    /\ clients[1].client_id # clients[2].client_id
    /\ Len(last.args[1]) = 2
    /\ last.outcome.kind = "return"

ClientErrorKind == handle_http_error(Response(404, "", "", NoJson)).value.cls
ServerErrorKind == handle_http_error(Response(503, "", "", NoJson)).value.cls

DescribeMissing(op, json) ==
    \/ op = "describe" /\ "metrics" \notin DOMAIN json
    \/ op = "describe_metric"
          /\ ("aggregations" \notin DOMAIN json \/ "dimensions" \notin DOMAIN json)

DescribeValue(op, json) ==
    IF op = "describe" THEN json["metrics"]
    ELSE <<json["aggregations"], json["dimensions"]>>

\* C9 as stated: on a successful response that lacks an expected field,
\* describe and describe_metric raise an error of a third kind, neither the
\* client-side nor the server-side kind; with the fields present they
\* return them.
C9_MalformedIsThirdKind ==
    (last.op \in {"describe", "describe_metric"}
        /\ ~RaisesForStatus(last.responses[1])) =>
        IF DescribeMissing(last.op, last.responses[1].json)
        THEN /\ last.outcome.kind = "raise"
             /\ last.outcome.value.cls \notin {ClientErrorKind, ServerErrorKind}
        ELSE last.outcome = Return(DescribeValue(last.op, last.responses[1].json))

\* C9 amended: the error raised is a RuntimeError, the class of the
\* server-side failure, with a fixed message and no status, reason or body.
C9_MalformedRaisesRuntimeError ==
    (last.op \in {"describe", "describe_metric"}
        /\ ~RaisesForStatus(last.responses[1])) =>
        IF DescribeMissing(last.op, last.responses[1].json)
        THEN last.outcome = Raise("RuntimeError", InvalidResponseMsg)
        ELSE last.outcome = Return(DescribeValue(last.op, last.responses[1].json))

\* describe() answered 200 with a body that has no metrics field
C9_Witness ==
    /\ last.op = "describe"
    /\ last.responses[1].status_code = 200
    /\ "metrics" \notin DOMAIN last.responses[1].json
    /\ last.outcome.kind = "raise"

Fetched(g) == Len(Flatten(g.pages))

\* C10: iter_events() issues no request; a next() call issues at most one,
\* for the offset after the last one, and only once every event fetched
\* before has been delivered; the events fetched and not yet delivered are
\* all of the latest page.
C10_NoReadAhead ==
    [][ /\ last'.op = "iter_events" =>
              last'.requests = <<>> /\ gen'.reqs = <<>> /\ gen'.pages = <<>>
        /\ (gen'.reqs # gen.reqs /\ gen'.reqs # <<>>) =>
              /\ last'.op = "next"
              /\ Len(last'.requests) = 1
              /\ gen'.reqs = Append(gen.reqs, <<10 * Len(gen.reqs), 10>>)
              /\ Len(gen.out) = Fetched(gen)
        /\ Len(gen'.pages) > 0 =>
              /\ Len(gen'.out) >= Fetched(gen') - Len(gen'.pages[Len(gen'.pages)])
              /\ Len(gen'.out) <= Fetched(gen')
              /\ Len(gen'.pages[Len(gen'.pages)]) > 0 =>
                    Len(gen'.out) > Fetched(gen') - Len(gen'.pages[Len(gen'.pages)])
      ]_vars

\* the second page was fetched by the next() that followed the delivery of
\* the tenth event of the first
C10_Witness ==
    /\ gen.pc = "suspended"
    /\ gen.reqs = <<<<0, 10>>, <<10, 10>>>>
    /\ Len(gen.pages[1]) = 10
    /\ Len(gen.out) = 11
    /\ Len(last.requests) = 1

====
